---- MODULE Spec2Model ----
(***************************************************************************)
(* Model of dataPyFile.py: get_options (snapshot normalizer),              *)
(* calculate_greeks (Greeks engine) and main (the collection run).         *)
(*                                                                         *)
(* Fixed-point representation of the reals the program handles:            *)
(*   spot               thousandths of a currency unit                     *)
(*   strike, prices     hundredths (cents)                                 *)
(*   underlying_price   hundredths, i.e. round(spot, 2)                    *)
(*   impliedVolatility  millionths, so 0.000010 is 10                      *)
(*   bound              percent, so 0.20 is 20                             *)
(*   instants           ticks, TicksPerDay of them per calendar day        *)
(* Rounding is computed on exact rationals (binary floating point error of *)
(* the products is not modelled).  The Greeks are not evaluated            *)
(* numerically: a computed Greek is the term <<name, inputs...>>.          *)
(***************************************************************************)
EXTENDS Integers, Sequences, FiniteSets, TLC

VARIABLES
    pc,        \* main: "start", "fetch", "emit", "done", "failed"
    idx,       \* main: position in the TICKERS x OPT_TYPES iteration (1-based)
    clock,     \* the instant (UTC ticks) of the latest clock read
    tz,        \* UTC offset (ticks) of the machine's local time zone
    df,        \* main: the table returned by the latest get_options call
    calls,     \* main: the (ticker, kind) pairs get_options was called with, in order
    attempts,  \* main: the sheets whose write was attempted (df.to_excel called)
    sink,      \* the sheets the sink accepted
    raised,    \* main: an exception left main (the run failed)
    now_et,    \* main: the US/Eastern reading taken at the start, used in sheet names
    nin,       \* get_options harness: the arguments, provider snapshot and clock reads
    nres,      \* get_options harness: the result of the call (or NoResult)
    gin,       \* calculate_greeks harness: the caller's table and opt_type
    gres       \* calculate_greeks harness: the result of the call (or NoResult)

vars == <<pc, idx, clock, tz, df, calls, attempts, sink, raised, now_et, nin, nres, gin, gres>>

mainVars == <<pc, idx, clock, tz, df, calls, attempts, sink, raised, now_et>>

(***************************************************************************)
(* Configuration                                                           *)
(***************************************************************************)
TICKERS == <<"SPY", "UPRO">>

OPT_TYPES == <<"c", "p">>

BOUND == 20

MAX_DTE == 120

\* impliedVolatility floor 0.000010, in millionths
IV_FLOOR == 10

(***************************************************************************)
(* Time                                                                    *)
(***************************************************************************)
\* resolution of the clocks: ticks per calendar day (6 = one tick per 4 hours)
TicksPerDay == 6

\* US/Eastern as an offset from UTC: UTC-4 (daylight time), a sixth of a day
EasternOffset == 0 - (TicksPerDay \div 6)

\* calendar date (day number) of a wall-clock reading
DateOf(t) == t \div TicksPerDay

\* time of day of a wall-clock reading
TimeOf(t) == t % TicksPerDay

\* pd.to_datetime("YYYY-MM-DD"): midnight of that day, no time zone
to_datetime(exp_str) == exp_str * TicksPerDay

\* timedelta(days=n)
timedelta(days) == days * TicksPerDay

\* Timedelta.days: whole days of a difference, rounded toward minus infinity
TimedeltaDays(td) == td \div TicksPerDay

(***************************************************************************)
(* Numbers                                                                 *)
(***************************************************************************)
\* round(n/d) to an integer as Python/numpy round does: half to even
RoundHalfEven(n, d) ==
    LET q == n \div d
        r == n % d
    IN  IF 2 * r < d THEN q
        ELSE IF 2 * r > d THEN q + 1
        ELSE IF q % 2 = 0 THEN q ELSE q + 1

\* a mutated rounding: truncation
RoundDown(n, d) == n \div d

\* round(x, 0) of x = n/d, in whole units
round0(n, d) == RoundHalfEven(n, d)

\* round(spot, 2): spot in thousandths, result in hundredths
round2(spot) == RoundHalfEven(spot, 10)

\* an implied volatility the provider reported as a number (millionths)
Num(v) == [num |-> TRUE, val |-> v]

\* an implied volatility cell holding a non-numeric object (comparison raises TypeError)
NonNumeric == [num |-> FALSE, val |-> 0]

(***************************************************************************)
(* Tables (pandas DataFrame): the column labels and the rows, each row a   *)
(* record of its cells plus its index label.                               *)
(***************************************************************************)
\* pd.DataFrame(): no columns, no rows
DataFrame == [cols |-> {}, rows |-> <<>>]

\* DataFrame.empty: some axis has length 0
empty(t) == t.cols = {} \/ t.rows = <<>>

\* row[c] = v, adding the cell when absent
SetCell(row, c, v) == [k \in (DOMAIN row) \cup {c} |-> IF k = c THEN v ELSE row[k]]

\* row without the cells in cs
DropCells(row, cs) == [k \in (DOMAIN row) \ cs |-> row[k]]

\* the columns selected by df.loc[mask, [..]] on the provider's chain
ChainCols == {"contractSymbol", "strike", "lastPrice", "bid", "ask", "impliedVolatility"}

\* the columns of the table get_options hands to calculate_greeks
NormCols == ChainCols \cup {"symbol", "expiry", "downloaded_at", "underlying_price", "dte"}

GreekCols == {"delta", "theta", "gamma", "vega"}

\* Series.between(lo, hi): inclusive on both sides; lo, hi in whole units, x in hundredths
between(x, lo, hi) == lo * 100 <= x /\ x <= hi * 100

\* a column assignment data[c] = col, where col holds one value per row
Assign(t, c, col) ==
    [cols |-> t.cols \cup {c},
     rows |-> [i \in DOMAIN t.rows |-> SetCell(t.rows[i], c, col[i])]]

\* a column assignment data[c] = v of one value to every row
AssignScalar(t, c, v) == Assign(t, c, [i \in DOMAIN t.rows |-> v])

\* data.drop(columns=cs)
drop(t, cs) ==
    [cols |-> t.cols \ cs,
     rows |-> [i \in DOMAIN t.rows |-> DropCells(t.rows[i], cs)]]

\* pd.concat(frames, ignore_index=True): rows in order, index renumbered from 0
RECURSIVE Flatten(_)
Flatten(frames) ==
    IF frames = <<>> THEN <<>> ELSE Head(frames).rows \o Flatten(Tail(frames))

concat(frames) ==
    LET all == Flatten(frames)
    IN  [cols |-> UNION {frames[i].cols : i \in DOMAIN frames},
         rows |-> [i \in DOMAIN all |-> SetCell(all[i], "index", i - 1)]]

(***************************************************************************)
(* calculate_greeks                                                        *)
(***************************************************************************)
\* a mutated comparison: >= 0.000010
at_or_above_floor(iv) == iv.val >= IV_FLOOR

\* the comparison impliedVolatility > 0.000010 on one cell
above_floor(iv) == iv.val > IV_FLOOR

\* a mutated filter: the rows are dropped in place, in the caller's table
drop_degenerate_inplace(data) ==
    LET Keep(r) == above_floor(r.impliedVolatility)
        kept == [cols |-> data.cols, rows |-> SelectSeq(data.rows, Keep)]
    IN  [kept |-> kept, caller |-> kept]

\* data[data['impliedVolatility'] > 0.000010].copy(): a new table holding the rows kept;
\* the caller's table stays as it was
drop_degenerate(data) ==
    LET Keep(r) == above_floor(r.impliedVolatility)
    IN  [kept   |-> [cols |-> data.cols, rows |-> SelectSeq(data.rows, Keep)],
         caller |-> data]

\* "call" or "put" branch of the delta and theta formulas
Branch(opt_type) == IF opt_type = "c" THEN "call" ELSE "put"

\* calculate_greeks(data, opt_type): ret is the table returned, caught tells that the
\* except clause ran (an exception was raised, printed and swallowed), arg is the
\* caller's table after the call.  The statements raise KeyError on a missing column
\* and TypeError on comparing a non-numeric impliedVolatility cell.
calculate_greeks(data, opt_type) ==
    IF \/ "impliedVolatility" \notin data.cols
       \/ \E i \in DOMAIN data.rows : ~data.rows[i].impliedVolatility.num
    THEN \* line 94 raises before data is rebound: the handler returns the argument
         [ret |-> data, caught |-> TRUE, arg |-> data]
    ELSE
    LET f  == drop_degenerate(data)
        d0 == f.kept
        Time(r)  == TimeOf(r.downloaded_at)
        T(r)     == <<"t", r.dte>>
        D1(r)    == <<"d1", r.underlying_price, r.strike, r.impliedVolatility.val, r.t>>
        D2(r)    == <<"d2", r.d1, r.impliedVolatility.val, r.t>>
        Delta(r) == <<"delta", Branch(opt_type), r.d1>>
        Theta(r) == <<"theta", Branch(opt_type), r.underlying_price, r.strike,
                      r.impliedVolatility.val, r.t, r.d1, r.d2>>
        Gamma(r) == <<"gamma", r.underlying_price, r.impliedVolatility.val, r.t, r.d1>>
        Vega(r)  == <<"vega", r.underlying_price, r.t, r.d1>>
    IN  IF empty(d0) THEN [ret |-> d0, caught |-> FALSE, arg |-> f.caller]
        ELSE IF "downloaded_at" \notin d0.cols
        THEN [ret |-> d0, caught |-> TRUE, arg |-> f.caller]
        ELSE
        LET d1 == Assign(d0, "time", [i \in DOMAIN d0.rows |-> Time(d0.rows[i])])
        IN  IF "dte" \notin d1.cols
            THEN [ret |-> d1, caught |-> TRUE, arg |-> f.caller]
            ELSE
            LET d2 == Assign(d1, "t", [i \in DOMAIN d1.rows |-> T(d1.rows[i])])
            IN  IF ~({"underlying_price", "strike"} \subseteq d2.cols)
                THEN [ret |-> d2, caught |-> TRUE, arg |-> f.caller]
                ELSE
                LET d3 == Assign(d2, "d1", [i \in DOMAIN d2.rows |-> D1(d2.rows[i])])
                    d4 == Assign(d3, "d2", [i \in DOMAIN d3.rows |-> D2(d3.rows[i])])
                    d5 == Assign(d4, "delta", [i \in DOMAIN d4.rows |-> Delta(d4.rows[i])])
                    d6 == Assign(d5, "theta", [i \in DOMAIN d5.rows |-> Theta(d5.rows[i])])
                    d7 == Assign(d6, "gamma", [i \in DOMAIN d6.rows |-> Gamma(d6.rows[i])])
                    d8 == Assign(d7, "vega", [i \in DOMAIN d7.rows |-> Vega(d7.rows[i])])
                IN  [ret    |-> drop(d8, {"t", "d1", "d2"}),
                     caught |-> FALSE,
                     arg    |-> f.caller]

(***************************************************************************)
(* The snapshot provider (yfinance), as far as get_options reads it:       *)
(* tk = [ok, spot, options, chain].  ok = FALSE: some provider call raises *)
(* (unknown symbol, network error).  options: the expiry dates listed.     *)
(* chain: the quotes the provider reports under every listed expiry.       *)
(***************************************************************************)
\* tk.option_chain(exp_str).calls / .puts: the quotes of one expiry, labelled 0..
option_chain(tk, exp_str, opt_type) ==
    [i \in DOMAIN tk.chain |->
        [index             |-> i - 1,
         contractSymbol    |-> <<opt_type, exp_str, i>>,
         strike            |-> tk.chain[i].strike,
         lastPrice         |-> tk.chain[i].lastPrice,
         bid               |-> tk.chain[i].bid,
         ask               |-> tk.chain[i].ask,
         impliedVolatility |-> tk.chain[i].impliedVolatility]]

(***************************************************************************)
(* get_options.  utcnow, timestamp and now are the three clock readings:   *)
(* datetime.utcnow() (UTC wall clock), datetime.now(eastern) (US/Eastern   *)
(* wall clock) and pd.Timestamp.now(tz=None) (the machine's local wall     *)
(* clock).  The result records the intermediate values next to ret.        *)
(***************************************************************************)
get_options_run(tk, ticker_symbol, opt_type, bound, max_dte, utcnow, timestamp, now) ==
    IF ~tk.ok
    THEN \* the except clause: print and return pd.DataFrame()
         [ret |-> DataFrame, caught |-> TRUE, lo |-> 0, hi |-> 0,
          cutoff_date |-> 0, skipped |-> {}, out |-> DataFrame, greeks_caught |-> FALSE]
    ELSE
    LET spot == tk.spot
        lo == round0(spot * (100 - bound), 100 * 1000)
        hi == round0(spot * (100 + bound), 100 * 1000)
        cutoff_date == utcnow + timedelta(max_dte)
        InBand(q) == between(q.strike, lo, hi)
        PastCutoff(exp_str) == to_datetime(exp_str) > cutoff_date
        skipped == {tk.options[i] : i \in {j \in DOMAIN tk.options : PastCutoff(tk.options[j])}}
        Frame(exp_str) ==
            LET exp_date == to_datetime(exp_str)
                sel == [cols |-> ChainCols,
                        rows |-> SelectSeq(option_chain(tk, exp_str, opt_type), InBand)]
                f1 == AssignScalar(sel, "symbol", ticker_symbol)
                f2 == AssignScalar(f1, "expiry", exp_date)
                f3 == AssignScalar(f2, "downloaded_at", timestamp)
            IN  AssignScalar(f3, "underlying_price", round2(spot))
        rows[i \in 0..Len(tk.options)] ==
            IF i = 0 THEN <<>>
            ELSE IF PastCutoff(tk.options[i]) THEN rows[i - 1]
            ELSE IF empty(Frame(tk.options[i])) THEN rows[i - 1]
            ELSE Append(rows[i - 1], Frame(tk.options[i]))
        frames == rows[Len(tk.options)]
    IN  IF frames = <<>>
        THEN [ret |-> DataFrame, caught |-> FALSE, lo |-> lo, hi |-> hi,
              cutoff_date |-> cutoff_date, skipped |-> skipped, out |-> DataFrame,
              greeks_caught |-> FALSE]
        ELSE
        LET cat == concat(frames)
            out == Assign(cat, "dte", [i \in DOMAIN cat.rows |->
                                          TimedeltaDays(cat.rows[i].expiry - now) + 1])
            Live(r) == r.dte > 0
            flt == [cols |-> out.cols, rows |-> SelectSeq(out.rows, Live)]
            g == calculate_greeks(flt, opt_type)
        IN  [ret |-> IF ~empty(flt) THEN g.ret ELSE flt,
             caught |-> FALSE, lo |-> lo, hi |-> hi, cutoff_date |-> cutoff_date,
             skipped |-> skipped, out |-> out,
             greeks_caught |-> ~empty(flt) /\ g.caught]

get_options(tk, ticker_symbol, opt_type, bound, max_dte, utcnow, timestamp, now) ==
    get_options_run(tk, ticker_symbol, opt_type, bound, max_dte, utcnow, timestamp, now).ret

(***************************************************************************)
(* Bounds of the inputs                                                    *)
(***************************************************************************)
\* most expiry dates the provider lists
MaxExpiries == 2

\* most quotes in one chain
MaxChain == 2

\* most rows of a table handed to calculate_greeks on its own
MaxRows == 2

\* most ticks between the first and the last clock read of one get_options call
MaxSkew == 1

\* sequences over S of length at most n
SeqsUpTo(S, n) == UNION {[1..k -> S] : k \in 0..n}

\* expiry lists: at most n of the days, in ascending order
ExpiryLists(days, n) ==
    {s \in SeqsUpTo(days, n) : \A i \in 1..(Len(s) - 1) : s[i] < s[i + 1]}

\* chains: at most n of the quotes, in ascending order of strike
Chains(quotes, n) ==
    {s \in SeqsUpTo(quotes, n) : \A i \in 1..(Len(s) - 1) : s[i].strike < s[i + 1].strike}

Quote(k, v) ==
    [strike |-> k, impliedVolatility |-> v, lastPrice |-> 150, bid |-> 140, ask |-> 160]

\* the provider's snapshots over the given spots, expiry days, strikes and volatilities
Snapshots(spots, days, strikes, ivs) ==
    [ok      : {TRUE},
     spot    : spots,
     options : ExpiryLists(days, MaxExpiries),
     chain   : Chains({Quote(k, v) : k \in strikes, v \in ivs}, MaxChain)]

\* a provider whose calls raise
Unavailable == [ok |-> FALSE, spot |-> 0, options |-> <<>>, chain |-> <<>>]

\* instants (UTC) at which a run may start: 00:00, 12:00 and 20:00 of day 0
StartTimes == {0, TicksPerDay \div 2, TicksPerDay - 1}

\* time zones of the machine: US/Eastern or UTC
LocalZones == {EasternOffset, 0}

NoCall == [kind |-> "none"]

NoResult == [kind |-> "none"]

(***************************************************************************)
(* SpecFn: get_options and calculate_greeks each called once, on arguments *)
(* drawn from the bounded sets.                                            *)
(***************************************************************************)
FnVolatilities == {Num(IV_FLOOR), Num(IV_FLOOR + 1), NonNumeric}

FnSnapshots ==
    Snapshots({100000, 99400, 100500}, {0 - 1, 0, 1, MAX_DTE, MAX_DTE + 1},
              {7900, 8000, 12100}, {Num(IV_FLOOR), Num(IV_FLOOR + 1)}) \cup {Unavailable}

GetOptionsCalls ==
    {[kind |-> "get_options", tk |-> tk, ticker_symbol |-> "SPY", opt_type |-> o,
      bound |-> BOUND, max_dte |-> MAX_DTE,
      utcnow |-> t, timestamp |-> t + EasternOffset, now |-> t + d + z] :
        tk \in FnSnapshots, o \in {"c", "p"}, t \in StartTimes,
        d \in 0..MaxSkew, z \in LocalZones}

\* a row of a normalized table, with index label i
NormRow(i, iv, dte) ==
    [index |-> i, contractSymbol |-> <<"c", 1, i>>, strike |-> 8000, lastPrice |-> 150,
     bid |-> 140, ask |-> 160, impliedVolatility |-> iv, symbol |-> "SPY",
     expiry |-> to_datetime(dte), downloaded_at |-> EasternOffset,
     underlying_price |-> 10000, dte |-> dte]

Restrict(row, cs) == [k \in (DOMAIN row) \cap (cs \cup {"index"}) |-> row[k]]

\* tables of at most n rows, the index labels ascending
LabelledRows(rs, n) ==
    {s \in SeqsUpTo(rs, n) : \A i \in 1..(Len(s) - 1) : s[i].index < s[i + 1].index}

\* the column sets of the tables handed to calculate_greeks: complete, one column
\* missing, or none (pd.DataFrame())
FnColumnSets ==
    {NormCols, {}} \cup
    {NormCols \ {c} : c \in {"impliedVolatility", "downloaded_at", "dte", "strike"}}

FnTables ==
    {[cols |-> cs,
      rows |-> [i \in DOMAIN rs |-> Restrict(rs[i], cs)]] :
        cs \in FnColumnSets,
        rs \in LabelledRows({NormRow(i, iv, dte) : i \in 0..MaxRows, iv \in FnVolatilities,
                                                   dte \in {1, 30}},
                            MaxRows)}

CalculateGreeksCalls ==
    {[kind |-> "calculate_greeks", data |-> t, opt_type |-> o] :
        t \in {t \in FnTables : t.cols # {} \/ t.rows = <<>>}, o \in {"c", "p"}}

MainIdle ==
    /\ pc = "idle" /\ idx = 0 /\ clock = 0 /\ tz = 0 /\ df = DataFrame
    /\ calls = <<>> /\ attempts = <<>> /\ sink = <<>> /\ raised = FALSE /\ now_et = 0

InitFn ==
    /\ MainIdle
    /\ nres = NoResult
    /\ gres = NoResult
    /\ \/ nin \in GetOptionsCalls /\ gin = NoCall
       \/ gin \in CalculateGreeksCalls /\ nin = NoCall

CallGetOptions ==
    /\ nin.kind = "get_options"
    /\ nres = NoResult
    /\ nres' = [kind |-> "returned",
                r |-> get_options_run(nin.tk, nin.ticker_symbol, nin.opt_type, nin.bound,
                                      nin.max_dte, nin.utcnow, nin.timestamp, nin.now)]
    /\ UNCHANGED <<mainVars, nin, gin, gres>>

CallCalculateGreeks ==
    /\ gin.kind = "calculate_greeks"
    /\ gres = NoResult
    /\ gres' = [kind |-> "returned", r |-> calculate_greeks(gin.data, gin.opt_type)]
    /\ UNCHANGED <<mainVars, nin, nres, gin>>

NextFn == CallGetOptions \/ CallCalculateGreeks

SpecFn == InitFn /\ [][NextFn]_vars

(***************************************************************************)
(* Properties of get_options and calculate_greeks (SpecFn)                 *)
(***************************************************************************)
GetOptionsReturned == nres.kind = "returned"

CalculateGreeksReturned == gres.kind = "returned"

\* the capture date: the date of the capture timestamp attached to the rows
CaptureDate == DateOf(nin.timestamp)

Abs(x) == IF x < 0 THEN 0 - x ELSE x

\* L is the whole number nearest to n/d
Nearest(L, n, d) == 2 * Abs(L * d - n) <= d

\* k (hundredths) lies in [round(spot*(1-bound)), round(spot*(1+bound))]
InStrikeBand(k, spot, bound) ==
    /\ \E L \in 0..200 : Nearest(L, spot * (100 - bound), 100 * 1000) /\ L * 100 <= k
    /\ \E H \in 0..200 : Nearest(H, spot * (100 + bound), 100 * 1000) /\ k <= H * 100

\* quote i of the chain listed under expiry e is among the rows collected by the loop
Survives(e, i) ==
    \E j \in DOMAIN nres.r.out.rows :
        nres.r.out.rows[j].contractSymbol = <<nin.opt_type, e, i>>

ListedExpiries == {nin.tk.options[i] : i \in DOMAIN nin.tk.options}

\* C1 (as claimed): dte is the calendar-day difference between the expiry date and the
\* capture date plus 1, so an expiry dated on the capture date gets dte = 1 and an
\* expiry dated the day before gets dte <= 0.
C1_DteIsDayDifferencePlusOne ==
    GetOptionsReturned =>
        \A j \in DOMAIN nres.r.out.rows :
            LET r == nres.r.out.rows[j]
                e == DateOf(r.expiry)
            IN  /\ r.dte = e - CaptureDate + 1
                /\ (e = CaptureDate => r.dte = 1)
                /\ (e = CaptureDate - 1 => r.dte <= 0)

\* C6: a quote of an expiry that reaches the strike filter survives it exactly when its
\* strike lies in the inclusive band [round(spot*(1-bound)), round(spot*(1+bound))];
\* for spot 100 and bound 0.20 the band is [80, 120].
C6_StrikeBandInclusive ==
    (GetOptionsReturned /\ nin.tk.ok) =>
        /\ \A e \in ListedExpiries \ nres.r.skipped :
               \A i \in DOMAIN nin.tk.chain :
                   Survives(e, i) <=>
                       InStrikeBand(nin.tk.chain[i].strike, nin.tk.spot, nin.bound)
        /\ (nin.tk.spot = 100000 /\ nin.bound = 20) =>
               /\ nres.r.lo = 80 /\ nres.r.hi = 120
               /\ \A e \in ListedExpiries \ nres.r.skipped :
                      \A i \in DOMAIN nin.tk.chain :
                          /\ nin.tk.chain[i].strike = 7900 => ~Survives(e, i)
                          /\ nin.tk.chain[i].strike = 8000 => Survives(e, i)
                          /\ nin.tk.chain[i].strike = 12100 => ~Survives(e, i)

\* C6 witness: spot 99.40 (band [80, 119] after rounding 79.52 up), a chain quoting
\* strikes 79 and 80 under an expiry that reaches the filter: 80 survives, 79 does not.
C6_Witness ==
    /\ GetOptionsReturned
    /\ nin.tk.ok
    /\ nin.tk.spot = 99400
    /\ Len(nin.tk.chain) = 2
    /\ nin.tk.chain[1].strike = 7900
    /\ nin.tk.chain[2].strike = 8000
    /\ \E e \in ListedExpiries \ nres.r.skipped : Survives(e, 2) /\ ~Survives(e, 1)

\* C7 (as claimed): the cutoff step skips an expiry exactly when its date is strictly
\* after the capture date plus max_dte days.
C7_CutoffFromCaptureDate ==
    (GetOptionsReturned /\ nin.tk.ok) =>
        \A e \in ListedExpiries :
            (e \in nres.r.skipped) <=> (e > CaptureDate + nin.max_dte)

\* C10 (as claimed): every row get_options returns has dte <= max_dte.
C10_DteAtMostMaxDte ==
    GetOptionsReturned =>
        \A j \in DOMAIN nres.r.ret.rows : nres.r.ret.rows[j].dte <= nin.max_dte

\* every row of the table has a numeric impliedVolatility at or below the floor
AllDegenerate(t) ==
    /\ "impliedVolatility" \in t.cols
    /\ t.rows # <<>>
    /\ \A i \in DOMAIN t.rows :
           t.rows[i].impliedVolatility.num /\ t.rows[i].impliedVolatility.val <= IV_FLOOR

\* every quote get_options collected is filtered out later (dte <= 0, or volatility at
\* or below the floor); the quotes not collected were filtered by band or cutoff
AllFilteredOut ==
    \A j \in DOMAIN nres.r.out.rows :
        LET r == nres.r.out.rows[j]
        IN  \/ r.dte <= 0
            \/ r.impliedVolatility.num /\ r.impliedVolatility.val <= IV_FLOOR

\* get_options returns an empty table, through no handler, when the provider lists no
\* expiry or every quote is filtered out
GetOptionsEmptyNotError ==
    (GetOptionsReturned /\ nin.tk.ok /\ (nin.tk.options = <<>> \/ AllFilteredOut)) =>
        /\ empty(nres.r.ret)
        /\ ~nres.r.caught
        /\ ~nres.r.greeks_caught

\* C8 (as claimed): calculate_greeks given an empty table, or a table whose every row
\* has impliedVolatility <= 1e-5, returns an empty table without taking its error
\* path; get_options returns an empty table, not an error, when there is no expiry or
\* every quote is filtered out.
C8_EmptyWithoutErrorPath ==
    /\ (CalculateGreeksReturned /\ (empty(gin.data) \/ AllDegenerate(gin.data))) =>
           empty(gres.r.ret) /\ ~gres.r.caught
    /\ GetOptionsEmptyNotError

\* C8 (amended): calculate_greeks given an empty table returns an empty table, taking
\* its error path exactly when the table has no impliedVolatility column (as
\* pd.DataFrame() has none); given a table whose every row has impliedVolatility
\* <= 1e-5 it returns an empty table without taking its error path; get_options
\* returns an empty table, not an error, when there is no expiry or every quote is
\* filtered out.
C8_EmptyErrorPathOnlyWithoutColumn ==
    /\ (CalculateGreeksReturned /\ empty(gin.data)) =>
           /\ empty(gres.r.ret)
           /\ gres.r.caught <=> "impliedVolatility" \notin gin.data.cols
    /\ (CalculateGreeksReturned /\ AllDegenerate(gin.data)) =>
           empty(gres.r.ret) /\ ~gres.r.caught
    /\ GetOptionsEmptyNotError

\* C8 witness: calculate_greeks was handed pd.DataFrame() and returned it empty through
\* the handler.
C8_Witness ==
    /\ CalculateGreeksReturned
    /\ gin.data = DataFrame
    /\ empty(gres.r.ret)
    /\ gres.r.caught

\* the fields calculate_greeks must leave as they are
NormalizedFields ==
    {"contractSymbol", "strike", "underlying_price", "impliedVolatility", "expiry", "dte"}

\* the input rows a returned row stands for: same index label, same normalized fields
SourceRows(r) ==
    {i \in DOMAIN gin.data.rows :
        /\ gin.data.rows[i].index = r.index
        /\ \A c \in NormalizedFields \cap DOMAIN gin.data.rows[i] :
               c \in DOMAIN r /\ r[c] = gin.data.rows[i][c]}

\* C9: calculate_greeks leaves the normalized fields unchanged: every returned row
\* corresponds to exactly one input row and carries its contractSymbol, strike,
\* underlying_price, impliedVolatility, expiry and dte; no row is duplicated; the
\* caller's table is as before the call, on the normal and on the exception path.
C9_NormalizedFieldsUnchanged ==
    CalculateGreeksReturned =>
        /\ gres.r.arg = gin.data
        /\ \A j \in DOMAIN gres.r.ret.rows :
               Cardinality(SourceRows(gres.r.ret.rows[j])) = 1
        /\ \A j, k \in DOMAIN gres.r.ret.rows :
               j # k => gres.r.ret.rows[j].index # gres.r.ret.rows[k].index

\* C9 witness: a call on the normal path that dropped one row and returned another with
\* its Greeks.
C9_Witness ==
    /\ CalculateGreeksReturned
    /\ ~gres.r.caught
    /\ Len(gin.data.rows) = 2
    /\ Len(gres.r.ret.rows) = 1
    /\ GreekCols \subseteq gres.r.ret.cols

(***************************************************************************)
(* Spec: main, one collection run over TICKERS x OPT_TYPES.                *)
(***************************************************************************)
NBatches == Len(TICKERS) * Len(OPT_TYPES)

\* the i-th (tk, opt_type) of the nested loops
Batch(i) ==
    <<TICKERS[((i - 1) \div Len(OPT_TYPES)) + 1], OPT_TYPES[((i - 1) % Len(OPT_TYPES)) + 1]>>

\* f"{tk}_{opt_type}_{timestamp}"; never longer than 31 characters for TICKERS
SheetName(b, timestamp) == <<b[1], b[2], timestamp>>

MainSnapshots ==
    Snapshots({100000}, {0, 1}, {8000, 9000},
              {Num(IV_FLOOR), Num(IV_FLOOR + 1), NonNumeric}) \cup {Unavailable}

Init ==
    /\ pc = "start"
    /\ idx = 1
    /\ clock \in StartTimes
    /\ tz \in LocalZones
    /\ df = DataFrame
    /\ calls = <<>>
    /\ attempts = <<>>
    /\ sink = <<>>
    /\ raised = FALSE
    /\ now_et = 0
    /\ nin = NoCall /\ nres = NoResult /\ gin = NoCall /\ gres = NoResult

\* main up to the loop: read the clock, ensure_workbook_exists(), open the ExcelWriter
\* (a run whose workbook cannot be opened never reaches the loop and is not modelled)
Start ==
    /\ pc = "start"
    /\ now_et' = clock + EasternOffset
    /\ pc' = "fetch"
    /\ UNCHANGED <<idx, clock, tz, df, calls, attempts, sink, raised, nin, nres, gin, gres>>

\* df = get_options(tk, opt_type, BOUND, MAX_DTE)
Fetch ==
    /\ pc = "fetch"
    /\ idx <= NBatches
    /\ \E tk \in MainSnapshots, d \in 0..MaxSkew :
           /\ clock + d <= TicksPerDay
           /\ df' = get_options(tk, Batch(idx)[1], Batch(idx)[2], BOUND, MAX_DTE,
                                clock, clock + EasternOffset, clock + d + tz)
           /\ clock' = clock + d
    /\ calls' = Append(calls, Batch(idx))
    /\ pc' = "emit"
    /\ UNCHANGED <<idx, tz, attempts, sink, raised, now_et, nin, nres, gin, gres>>

\* if df.empty: print "no rows matched filters"; continue
Skip ==
    /\ pc = "emit"
    /\ empty(df)
    /\ idx' = idx + 1
    /\ pc' = "fetch"
    /\ UNCHANGED <<clock, tz, df, calls, attempts, sink, raised, now_et, nin, nres, gin, gres>>

\* df.to_excel(xl, sheet_name=sheet): the sink accepts the table, or raises; the
\* exception is caught nowhere and leaves the loops and main
Write ==
    /\ pc = "emit"
    /\ ~empty(df)
    /\ LET sheet == [name |-> SheetName(Batch(idx), now_et), rows |-> Len(df.rows)]
       IN  /\ attempts' = Append(attempts, sheet)
           /\ \E ok \in BOOLEAN :
                  IF ok THEN /\ sink' = Append(sink, sheet)
                             /\ idx' = idx + 1
                             /\ pc' = "fetch"
                             /\ raised' = FALSE
                        ELSE /\ sink' = sink
                             /\ idx' = idx
                             /\ pc' = "failed"
                             /\ raised' = TRUE
    /\ UNCHANGED <<clock, tz, df, calls, now_et, nin, nres, gin, gres>>

\* the loops are over: the ExcelWriter is closed (the workbook saved) and main returns
Finish ==
    /\ pc = "fetch"
    /\ idx > NBatches
    /\ \E ok \in BOOLEAN :
           IF ok THEN pc' = "done" /\ raised' = FALSE
                 ELSE pc' = "failed" /\ raised' = TRUE
    /\ UNCHANGED <<idx, clock, tz, df, calls, attempts, sink, now_et, nin, nres, gin, gres>>

Next == Start \/ Fetch \/ Skip \/ Write \/ Finish

Spec == Init /\ [][Next]_vars

(***************************************************************************)
(* Properties of main (Spec)                                               *)
(***************************************************************************)
RunEnded == pc \in {"done", "failed"}

\* a write was attempted and the sink raised
SinkFailed == Len(attempts) > Len(sink)

\* the table main holds after get_options returned, before it is skipped or written
Returned == pc = "emit"

\* C2 (as claimed): a persistence error raised by the sink while writing one batch does
\* not prevent the later batches of the run from being fetched and written, and the run
\* ends by surfacing the failure: once the run has ended after a sink failure, every
\* (ticker, kind) batch has been processed and the failure has left main.
C2_SinkFailureKeepsLaterBatches ==
    (RunEnded /\ SinkFailed) => (Len(calls) = NBatches /\ raised)

\* C3 (as claimed): every non-empty table get_options returns to main has all four
\* Greeks in every row.
C3_AllFourGreeksPopulated ==
    (Returned /\ ~empty(df)) =>
        /\ GreekCols \subseteq df.cols
        /\ \A i \in DOMAIN df.rows : GreekCols \subseteq DOMAIN df.rows[i]

\* C4 (as claimed): every row of every table get_options returns has dte > 0 and an
\* impliedVolatility above 1e-5 (no row carries a volatility at or below the floor).
C4_DomainGuard ==
    Returned =>
        \A i \in DOMAIN df.rows :
            /\ df.rows[i].dte > 0
            /\ ~(df.rows[i].impliedVolatility.num /\ df.rows[i].impliedVolatility.val <= IV_FLOOR)

\* C5 (as claimed): get_options is called once per (ticker, kind), in list order, and
\* by the end of the run it has been called for every one of them, whichever earlier
\* calls failed or returned no rows; an empty table is never passed to the sink.
C5_EveryBatchFetchedOnce ==
    /\ Len(calls) <= NBatches
    /\ \A i \in DOMAIN calls : calls[i] = Batch(i)
    /\ \A i \in DOMAIN attempts : attempts[i].rows > 0
    /\ RunEnded => Len(calls) = NBatches

====
